---- MODULE Spec2Model ----
(***************************************************************************)
(* Model of the search orchestration of imdb-id (src/src/omdb.rs):          *)
(* RequestBundle::new builds the per-request parameter sets from the        *)
(* Filters and the request budget, RequestBundle::get_results sends one     *)
(* search per parameter set, classifies every failure, merges the pages     *)
(* with itertools' kmerge_by and removes duplicates with unique_by.         *)
(***************************************************************************)
EXTENDS Integers, Sequences, FiniteSets, TLC

\* ------------------------------------------------------------------------
\* Bounds of the model
\* ------------------------------------------------------------------------
MaxYear == 2
MaxBudget == 3
MaxEntries == 3
MaxId == 2

Years == 1..MaxYear
Budgets == 0..MaxBudget
Ids == 1..MaxId

\* ------------------------------------------------------------------------
\* MediaType (bitflags) and Year (an inclusive range of u16)
\* ------------------------------------------------------------------------
MOVIE == {"movie"}
SERIES == {"series"}
GAME == {"game"}
ALL == MOVIE \cup SERIES \cup GAME

\* every value RuntimeConfig::process_matches can build: the union of one or
\* more parsed flags, or ALL when no -t is given
MediaTypes == (SUBSET ALL) \ {{}}

count(types) == Cardinality(types)

str_iter(types) ==
    SelectSeq(<<"movie", "series", "game">>, LAMBDA s : s \in types)

None == [some |-> FALSE]
Some(v) == [some |-> TRUE, val |-> v]

\* Year(start..=end); parsing swaps an inverted range, so start <= end
YearRanges == {[start |-> s, end |-> e] : s \in Years, e \in Years} \cap
              {r \in [start : Years, end : Years] : r.start <= r.end}
YearFilters == {None} \cup {Some(r) : r \in YearRanges}

YearIter(r) == [i \in 1..(r.end - r.start + 1) |-> r.start + i - 1]

\* mutant: nothing is cut off
TakeAll(seq, n) == seq

Take(seq, n) == SubSeq(seq, 1, IF n < Len(seq) THEN n ELSE Len(seq))

\* Filters::combinations
combinations(types, years) ==
    (IF types = ALL THEN 1 ELSE count(types)) *
    (IF years.some THEN Len(YearIter(years.val)) ELSE 1)

\* ------------------------------------------------------------------------
\* FilterParameters and RequestBundle::new
\* ------------------------------------------------------------------------
NoType == "none"
NoYear == 0

FilterParametersDefault == [media_type |-> NoType, year |-> NoYear]
FromType(mt) == [media_type |-> mt, year |-> NoYear]
FromYear(y) == [media_type |-> NoType, year |-> y]
FromPair(y, mt) == [media_type |-> mt, year |-> y]

Range(seq) == {seq[i] : i \in DOMAIN seq}

RECURSIVE Flatten(_)
Flatten(seqs) ==
    IF seqs = <<>> THEN <<>> ELSE Head(seqs) \o Flatten(Tail(seqs))

\* mutant: the argument is the outer loop (the pairs keep their shape)
cartesian_product_inner_first(outer, inner) ==
    Flatten([j \in 1..Len(inner) |->
                [i \in 1..Len(outer) |-> <<outer[i], inner[j]>>]])

\* itertools cartesian_product: the receiver is the outer loop
cartesian_product(outer, inner) ==
    Flatten([i \in 1..Len(outer) |->
                [j \in 1..Len(inner) |-> <<outer[i], inner[j]>>]])

\* mutant: every arm is cut to the budget, the unfiltered one too
BuildParamsAllTaken(types, years, max) ==
    CASE types = ALL /\ ~years.some -> Take(<<FilterParametersDefault>>, max)
      [] types = ALL /\ years.some ->
            LET taken == Take(YearIter(years.val), max)
            IN  [i \in 1..Len(taken) |-> FromYear(taken[i])]
      [] types # ALL /\ ~years.some ->
            LET strs == Take(str_iter(types), max)
            IN  [i \in 1..Len(strs) |-> FromType(strs[i])]
      [] OTHER ->
            LET taken == Take(cartesian_product(YearIter(years.val),
                                                str_iter(types)), max)
            IN  [i \in 1..Len(taken) |-> FromPair(taken[i][1], taken[i][2])]

BuildParams(types, years, max) ==
    CASE types = ALL /\ ~years.some -> <<FilterParametersDefault>>
      [] types = ALL /\ years.some ->
            LET taken == Take(YearIter(years.val), max)
            IN  [i \in 1..Len(taken) |-> FromYear(taken[i])]
      [] types # ALL /\ ~years.some ->
            LET strs == str_iter(types)
            IN  [i \in 1..Len(strs) |-> FromType(strs[i])]
      [] OTHER ->
            LET taken == Take(cartesian_product(YearIter(years.val),
                                                str_iter(types)), max)
            IN  [i \in 1..Len(taken) |-> FromPair(taken[i][1], taken[i][2])]

\* ------------------------------------------------------------------------
\* RequestError and the responses of send_omdb_search
\* ------------------------------------------------------------------------
\* OMDb error messages, as sequences of tokens (the last token is the suffix
\* that ends_with inspects)
NotFoundSuffix == "not found!"
OmdbMessages == { <<"Movie ", NotFoundSuffix>>,
                  <<"Request limit reached!">> }

ends_with(msg, suffix) == Len(msg) > 0 /\ msg[Len(msg)] = suffix

NoErr == [kind |-> "None", msg |-> <<>>, at |-> 0]

\* the errors request number i can fail with; `at` records which request
\* produced the value (two errors of different requests are different values)
RequestErrors(i) ==
    {[kind |-> k, msg |-> <<>>, at |-> i] : k \in {"Web", "Deserialisation"}}
    \cup {[kind |-> "Omdb", msg |-> m, at |-> i] : m \in OmdbMessages}

\* impl MaybeFatal for RequestError
is_fatal(e) ==
    CASE e.kind = "Web" -> TRUE
      [] e.kind = "Omdb" -> TRUE
      [] e.kind = "Deserialisation" -> FALSE
      [] OTHER -> FALSE

\* mutant: every OMDb error message counts as 'not found'
IsMissingAnyOmdb(e) == e.kind = "Omdb"

\* matches!(&missing, RequestError::Omdb(msg) if msg.ends_with("not found!"))
IsMissing(e) == e.kind = "Omdb" /\ ends_with(e.msg, NotFoundSuffix)

\* the Search array of a response: up to n imdb ids, duplicates allowed.
\* imdb ids are opaque strings that are only compared for equality, so they
\* are numbered in the order of their first appearance in a call: with the
\* ids 1..seen returned so far, an entry repeats an id or brings the next one
IdLists(n, seen) ==
    {ids \in UNION {[1..l -> Ids] : l \in 0..n} :
        \A p \in DOMAIN ids :
            \E known \in {seen} \cup {ids[q] : q \in 1..(p - 1)} :
                ids[p] <= known + 1}

\* SearchResult: imdb_id is the only field the engine reads; page and pos
\* identify the entry (the request that returned it, its 0-based position in
\* that response) the way title/year/media_type tell two entries apart
Entries(i, ids) ==
    [p \in 1..Len(ids) |-> [imdb_id |-> ids[p], page |-> i, pos |-> p - 1]]

\* ------------------------------------------------------------------------
\* itertools kmerge_by (binary heap of head/tail pairs) and unique_by
\* ------------------------------------------------------------------------
\* set.into_iter().enumerate()
enumerate(set) == [i \in 1..Len(set) |-> <<i - 1, set[i]>>]

\* the closure |a, b| a.0 < b.0 applied to the heads of two heap slots
less_than(a, b) == Head(a)[1] < Head(b)[1]

Swap(heap, i, j) ==
    [heap EXCEPT ![i] = heap[j], ![j] = heap[i]]

\* positions are 1-based: the children of pos are 2*pos and 2*pos + 1
RECURSIVE sift_down(_, _)
sift_down(heap, pos) ==
    LET left == 2 * pos
        right == 2 * pos + 1
    IN  IF right <= Len(heap)
        THEN LET child == IF less_than(heap[right], heap[left])
                          THEN right ELSE left
             IN  IF ~less_than(heap[child], heap[pos])
                 THEN heap
                 ELSE sift_down(Swap(heap, pos, child), child)
        ELSE IF left = Len(heap) /\ less_than(heap[left], heap[pos])
             THEN Swap(heap, pos, left)
             ELSE heap

RECURSIVE heapify_from(_, _)
heapify_from(heap, i) ==
    IF i = 0 THEN heap ELSE heapify_from(sift_down(heap, i), i - 1)

heapify(heap) == heapify_from(heap, Len(heap) \div 2)

\* Vec::swap_remove(0)
swap_remove(heap) ==
    [i \in 1..(Len(heap) - 1) |-> IF i = 1 THEN heap[Len(heap)] ELSE heap[i]]

\* KMergeBy::next, repeated until the heap is empty
RECURSIVE kmerge_drain(_, _)
kmerge_drain(heap, out) ==
    IF heap = <<>> THEN out
    ELSE LET slot == heap[1]
             rest == IF Len(slot) > 1
                     THEN [heap EXCEPT ![1] = Tail(slot)]
                     ELSE swap_remove(heap)
         IN  kmerge_drain(sift_down(rest, 1), Append(out, Head(slot)))

kmerge_by(iters) ==
    kmerge_drain(heapify(SelectSeq(iters, LAMBDA it : it # <<>>)), <<>>)

\* mutant: the merged list comes out back to front
MergeResultsReversed(result_sets) ==
    LET kmerged == kmerge_by([i \in 1..Len(result_sets) |->
                                 enumerate(result_sets[i])])
        n == Len(kmerged)
    IN  [i \in 1..n |-> kmerged[n + 1 - i][2]]

\* mutant: the pages are concatenated instead of merged by rank
MergeResultsConcat(result_sets) == Flatten(result_sets)

\* .map(|set| set.into_iter().enumerate()).kmerge_by(..).map(|(_, sr)| sr)
MergeResults(result_sets) ==
    LET kmerged == kmerge_by([i \in 1..Len(result_sets) |->
                                 enumerate(result_sets[i])])
    IN  [i \in 1..Len(kmerged) |-> kmerged[i][2]]

RECURSIVE unique_from(_, _)
unique_from(seq, seen) ==
    IF seq = <<>> THEN <<>>
    ELSE IF Head(seq).imdb_id \in seen
         THEN unique_from(Tail(seq), seen)
         ELSE <<Head(seq)>> \o
              unique_from(Tail(seq), seen \cup {Head(seq).imdb_id})

RECURSIVE keep_last_from(_)
keep_last_from(seq) ==
    IF seq = <<>> THEN <<>>
    ELSE IF \E i \in 2..Len(seq) : seq[i].imdb_id = Head(seq).imdb_id
         THEN keep_last_from(Tail(seq))
         ELSE <<Head(seq)>> \o keep_last_from(Tail(seq))

\* mutant: the last occurrence of an imdb_id is kept instead of the first
unique_by_keep_last(seq) == keep_last_from(seq)

\* mutant: an entry is dropped only when it repeats its predecessor's id
unique_by_adjacent(seq) ==
    LET kept == SelectSeq([i \in 1..Len(seq) |->
                    [e |-> seq[i],
                     dup |-> i > 1 /\ seq[i - 1].imdb_id = seq[i].imdb_id]],
                    LAMBDA x : ~x.dup)
    IN  [i \in 1..Len(kept) |-> kept[i].e]

\* .unique_by(|sr| sr.imdb_id.clone())
unique_by(seq) == unique_from(seq, {})

\* ------------------------------------------------------------------------
\* State
\* ------------------------------------------------------------------------
NoResult == [tag |-> "None", list |-> <<>>, err |-> NoErr]
Ok(list) == [tag |-> "Ok", list |-> list, err |-> NoErr]
Err(e) == [tag |-> "Err", list |-> <<>>, err |-> e]
\* Option::unwrap on None
Panic == [tag |-> "Panic", list |-> <<>>, err |-> NoErr]

\* ------------------------------------------------------------------------
\* Year (filters.rs): the value of -y and of a search result's year

\* longest -y argument tried (chars, not bytes)
MaxStrLen == 5

DigitChars == <<"0", "1", "2", "3", "4", "5", "6", "7", "8", "9">>
\* a char is a string of its own; the en dash (U+2013) is written "ndash"
EN_DASH == "ndash"
\* Year::SEPARATORS: hyphen and en dash
SEPARATORS == {"-", EN_DASH}
\* the chars the arguments are made of: three digits, a sign, both
\* separators and a letter
Alphabet == {"0", "1", "9", "+", "x"} \cup SEPARATORS
YearStrings == UNION {[1..n -> Alphabet] : n \in 0..MaxStrLen}

U16Max == 65535

IsDigit(c) == \E d \in DOMAIN DigitChars : DigitChars[d] = c
to_digit(c) == (CHOOSE d \in DOMAIN DigitChars : DigitChars[d] = c) - 1

ParseOk(n) == [ok |-> TRUE, val |-> n, kind |-> "none"]
ParseIntError(kind) == [ok |-> FALSE, val |-> 0, kind |-> kind]

\* the digit loop of u16::from_str, left to right with checked arithmetic
RECURSIVE parse_digits(_, _, _)
parse_digits(s, i, acc) ==
    IF i > Len(s) THEN ParseOk(acc)
    ELSE IF ~IsDigit(s[i]) THEN ParseIntError("InvalidDigit")
    ELSE IF acc * 10 + to_digit(s[i]) > U16Max THEN ParseIntError("PosOverflow")
    ELSE parse_digits(s, i + 1, acc * 10 + to_digit(s[i]))

\* str::parse::<u16>: empty is an error, one leading '+' is allowed, a lone
\* sign is an invalid digit
parse_u16(s) ==
    IF s = <<>> THEN ParseIntError("Empty")
    ELSE IF Len(s) = 1 /\ s[1] \in {"+", "-"} THEN ParseIntError("InvalidDigit")
    ELSE IF s[1] = "+" THEN parse_digits(s, 2, 0)
    ELSE parse_digits(s, 1, 0)

Single(n) == [tag |-> "Single", n |-> n]
YearRange(start, end) == [tag |-> "Range", start |-> start, end |-> end]
YearErr(e) == [tag |-> "Err", kind |-> e.kind]
\* from_str was not called yet
NotParsed == [tag |-> "NotParsed"]

\* str::starts_with / ends_with with a slice of chars as the pattern
starts_with_any(s, chars) == s # <<>> /\ s[1] \in chars
ends_with_any(s, chars) == s # <<>> /\ s[Len(s)] \in chars

\* str::split_once with a slice of chars: cut at the first char of the slice
split_once(s, chars) ==
    IF \E i \in DOMAIN s : s[i] \in chars
    THEN LET i == CHOOSE k \in DOMAIN s :
                    /\ s[k] \in chars
                    /\ \A j \in 1..(k - 1) : s[j] \notin chars
         IN  Some(<<SubSeq(s, 1, i - 1), SubSeq(s, i + 1, Len(s))>>)
    ELSE None

\* mutant: an inverted range is kept as typed
keep_as_typed(start, end) == <<start, end>>

\* if start > end { mem::swap(&mut start, &mut end) }
swap_if_inverted(start, end) ==
    IF start > end THEN <<end, start>> ELSE <<start, end>>

\* mutant: nothing after the separator means no end
open_start_lenient(year_str) ==
    LET rest == SubSeq(year_str, 2, Len(year_str))
        end == parse_u16(rest)
    IN  IF rest = <<>> THEN YearRange(None, None)
        ELSE IF end.ok THEN YearRange(None, Some(end.val)) ELSE YearErr(end)

\* from_str, first arm ("-2021"): skip the separator, parse the rest
open_start(year_str) ==
    LET end == parse_u16(SubSeq(year_str, 2, Len(year_str)))
    IN  IF end.ok THEN YearRange(None, Some(end.val)) ELSE YearErr(end)

\* from_str, second arm ("1999-"): drop the last char, parse the rest
open_end(year_str) ==
    LET start == parse_u16(SubSeq(year_str, 1, Len(year_str) - 1))
    IN  IF start.ok THEN YearRange(Some(start.val), None) ELSE YearErr(start)

\* from_str, third arm ("1999-2021"), s and e being the two sides
bounded(s, e) ==
    LET start == parse_u16(s)
        end == parse_u16(e)
    IN  IF ~start.ok THEN YearErr(start)
        ELSE IF ~end.ok THEN YearErr(end)
        ELSE LET se == swap_if_inverted(start.val, end.val)
             IN  YearRange(Some(se[1]), Some(se[2]))

\* from_str, last arm ("2010")
single(year_str) ==
    LET n == parse_u16(year_str)
    IN  IF n.ok THEN Single(n.val) ELSE YearErr(n)

\* impl FromStr for Year
from_str(year_str) ==
    IF starts_with_any(year_str, SEPARATORS) THEN open_start(year_str)
    ELSE IF ends_with_any(year_str, SEPARATORS) THEN open_end(year_str)
    ELSE LET split == split_once(year_str, SEPARATORS)
         IN  IF split.some THEN bounded(split.val[1], split.val[2])
             ELSE single(year_str)

\* Year::contains
contains(y, n) ==
    IF y.tag = "Single" THEN y.n = n
    ELSE /\ (y.start.some => n >= y.start.val)
         /\ (y.end.some => n <= y.end.val)

\* ------------------------------------------------------------------------
\* Filters::allows (filters.rs)

\* most genres given with -g
MaxGenres == 2

\* enum Genre
Movie == [tag |-> "Movie", s |-> <<>>]
Series == [tag |-> "Series", s |-> <<>>]
Episode == [tag |-> "Episode", s |-> <<>>]
Other(s) == [tag |-> "Other", s |-> s]
\* the genres Filters::new can hold (Genre::from_str: no Other)
Genres == {Movie, Series, Episode}

\* impl AsRef<str> for Genre
as_str(g) ==
    CASE g.tag = "Movie" -> <<"m", "o", "v", "i", "e">>
      [] g.tag = "Series" -> <<"s", "e", "r", "i", "e", "s">>
      [] g.tag = "Episode" -> <<"e", "p", "i", "s", "o", "d", "e">>
      [] g.tag = "Other" -> g.s

UpperChars == <<"A", "B", "C", "D", "E", "F", "G", "H", "I", "J", "K", "L", "M",
                "N", "O", "P", "Q", "R", "S", "T", "U", "V", "W", "X", "Y", "Z">>
LowerChars == <<"a", "b", "c", "d", "e", "f", "g", "h", "i", "j", "k", "l", "m",
                "n", "o", "p", "q", "r", "s", "t", "u", "v", "w", "x", "y", "z">>

\* u8::to_ascii_lowercase on a char
to_ascii_lowercase(c) ==
    IF \E i \in DOMAIN UpperChars : UpperChars[i] = c
    THEN LowerChars[CHOOSE i \in DOMAIN UpperChars : UpperChars[i] = c]
    ELSE c

\* str::eq_ignore_ascii_case
eq_ignore_ascii_case(a, b) ==
    /\ Len(a) = Len(b)
    /\ \A i \in DOMAIN a : to_ascii_lowercase(a[i]) = to_ascii_lowercase(b[i])

\* impl PartialEq<str> for Genre
genre_eq(g, other) == eq_ignore_ascii_case(other, as_str(g))

\* mutant: the genre words are compared as typed
as_typed(s) == s

\* str::to_ascii_lowercase
lowered(s) == [i \in DOMAIN s |-> to_ascii_lowercase(s[i])]

\* impl FromStr for Genre: None stands for Err(InvalidGenre)
genre_from_str(s) ==
    CASE lowered(s) = as_str(Movie) -> Some(Movie)
      [] lowered(s) = as_str(Series) -> Some(Series)
      [] lowered(s) = as_str(Episode) -> Some(Episode)
      [] OTHER -> None

\* impl From<&str> for Genre
genre_from(s) ==
    IF genre_from_str(s).some THEN genre_from_str(s).val ELSE Other(s)

\* the years a filter or a search result can carry: what from_str builds
\* from years in Years (a range is never inverted and never open at both ends)
YearValues ==
    {Single(n) : n \in Years}
        \cup {YearRange(Some(a), Some(b)) : a \in Years, b \in Years}
        \cup {YearRange(None, Some(b)) : b \in Years}
        \cup {YearRange(Some(a), None) : a \in Years}
YearsAsParsed ==
    {y \in YearValues :
        (y.tag = "Range" /\ y.start.some /\ y.end.some) => y.start.val <= y.end.val}

\* the values of -g tried: two spellings of one genre, another genre, and a
\* word that is no genre
GenreArgTexts ==
    { <<"m", "o", "v", "i", "e">>, <<"M", "o", "v", "i", "e">>,
      <<"s", "e", "r", "i", "e", "s">>, <<"g", "a", "m", "e">> }
GenreArgs == UNION {[1..n -> GenreArgTexts] : n \in 0..MaxGenres}
\* the value of -y, parsed (None: no -y)
YearArgs == {None} \cup {Some(y) : y \in YearsAsParsed}

\* Filters::new: every -g word through Genre::from_str, the first bad one is
\* the error (None)
filters_new(genre_words, year_arg) ==
    IF \A i \in DOMAIN genre_words : genre_from_str(genre_words[i]).some
    THEN Some([genres |-> [i \in DOMAIN genre_words |->
                              genre_from_str(genre_words[i]).val],
               years |-> year_arg])
    ELSE None

\* media types as OMDb may spell them
MediaTypeTexts ==
    { <<"m", "o", "v", "i", "e">>, <<"M", "o", "v", "i", "e">>,
      <<"s", "e", "r", "i", "e", "s">>, <<"S", "E", "R", "I", "E", "S">>,
      <<"e", "p", "i", "s", "o", "d", "e">>, <<"g", "a", "m", "e">>,
      <<"V", "i", "d", "e", "o">> }
\* the fields of SearchResult that allows reads; media_type is deserialised
\* with Genre::from
SearchResultValues ==
    [media_type : {genre_from(t) : t \in MediaTypeTexts}, year : YearsAsParsed]

\* the match on (year, &search_result.year), arm by arm in source order
year_matches(f, sr) ==
    IF ~f.years.some THEN TRUE
    ELSE LET year == f.years.val
             cand == sr.year
         IN  CASE year.tag = "Single" /\ cand.tag = "Single" -> year.n = cand.n
               [] year.tag = "Range" /\ cand.tag = "Range"
                    /\ ~year.start.some /\ ~cand.start.some -> TRUE
               [] year.tag = "Range" /\ cand.tag = "Range"
                    /\ ~(~year.start.some /\ ~cand.start.some)
                    /\ ~year.end.some /\ ~cand.end.some -> TRUE
               [] year.tag = "Range" /\ cand.tag = "Range"
                    /\ ~(~year.start.some /\ ~cand.start.some)
                    /\ ~(~year.end.some /\ ~cand.end.some) ->
                        \/ (cand.start.some /\ contains(year, cand.start.val))
                        \/ (cand.end.some /\ contains(year, cand.end.val))
               [] year.tag = "Single" /\ cand.tag = "Range" -> contains(cand, year.n)
               [] year.tag = "Range" /\ cand.tag = "Single" -> contains(year, cand.n)

genre_matches(f, sr) ==
    \/ f.genres = <<>>
    \/ \E i \in DOMAIN f.genres : genre_eq(f.genres[i], as_str(sr.media_type))

\* Filters::allows
allows(f, sr) == year_matches(f, sr) /\ genre_matches(f, sr)

\* ------------------------------------------------------------------------
\* MAX_REQUESTS_PER_SEARCH (omdb.rs): the budget read from the environment

\* longest value of the environment variable tried, but for TooBig
MaxEnvLen == 3

DEFAULT_MAX_REQUESTS_PER_SEARCH == 10

EnvAlphabet == {"0", "1", "2", "+", "x"}
\* usize::MAX for a 64-bit target, in digits, and the number after it
USIZE_MAX_DIGITS ==
    <<"1", "8", "4", "4", "6", "7", "4", "4", "0", "7",
      "3", "7", "0", "9", "5", "5", "1", "6", "1", "5">>
TooBig == [USIZE_MAX_DIGITS EXCEPT ![20] = "6"]
EnvTexts == UNION {[1..n -> EnvAlphabet] : n \in 0..MaxEnvLen} \cup {TooBig}

\* env::var: not present, not valid unicode, or a string
EnvUnset == [is |-> "unset", val |-> <<>>]
EnvNotUnicode == [is |-> "not_unicode", val |-> <<>>]
EnvSet(s) == [is |-> "set", val |-> s]
EnvValues == {EnvUnset, EnvNotUnicode} \cup {EnvSet(s) : s \in EnvTexts}

RECURSIVE strip_zeros(_)
strip_zeros(ds) ==
    IF Len(ds) > 1 /\ Head(ds) = "0" THEN strip_zeros(Tail(ds)) ELSE ds

\* a > b for two numbers in digits without leading zeros
digits_greater(a, b) ==
    \/ Len(a) > Len(b)
    \/ /\ Len(a) = Len(b)
       /\ \E i \in DOMAIN a :
            /\ to_digit(a[i]) > to_digit(b[i])
            /\ \A j \in 1..(i - 1) : a[j] = b[j]

RECURSIVE digits_value(_, _, _)
digits_value(ds, i, acc) ==
    IF i > Len(ds) THEN acc ELSE digits_value(ds, i + 1, acc * 10 + to_digit(ds[i]))

\* str::parse::<usize>: as parse_u16 but 64 bits wide; the overflow test is
\* made on the digits, the value being computed only when it fits
parse_usize(s) ==
    IF s = <<>> THEN ParseIntError("Empty")
    ELSE IF Len(s) = 1 /\ s[1] \in {"+", "-"} THEN ParseIntError("InvalidDigit")
    ELSE LET ds == IF s[1] = "+" THEN Tail(s) ELSE s
         IN  IF \E i \in DOMAIN ds : ~IsDigit(ds[i])
             THEN ParseIntError("InvalidDigit")
             ELSE IF digits_greater(strip_zeros(ds), USIZE_MAX_DIGITS)
             THEN ParseIntError("PosOverflow")
             ELSE ParseOk(digits_value(ds, 1, 0))

\* mutant: a value that does not parse is passed on as its error value
max_requests_unwrap_or_default(env) ==
    IF env.is = "set"
    THEN parse_usize(env.val).val
    ELSE DEFAULT_MAX_REQUESTS_PER_SEARCH

\* the closure of Lazy::new
max_requests_per_search(env) ==
    IF env.is = "set"
    THEN LET parsed == parse_usize(env.val)
         IN  IF parsed.ok THEN parsed.val ELSE DEFAULT_MAX_REQUESTS_PER_SEARCH
    ELSE DEFAULT_MAX_REQUESTS_PER_SEARCH

\* ------------------------------------------------------------------------
\* search_term of RuntimeConfig::process_matches (clap_wrap.rs)

\* most search-term words on the command line, and their greatest length
MaxWords == 3
MaxWordLen == 2

WordAlphabet == {"a", " "}
\* NonEmptyStringValueParser: a word has at least one char
WordTexts == UNION {[1..n -> WordAlphabet] : n \in 1..MaxWordLen}
WordLists == UNION {[1..n -> WordTexts] : n \in 1..MaxWords}

RECURSIVE trim_start(_)
trim_start(w) ==
    IF w # <<>> /\ Head(w) = " " THEN trim_start(Tail(w)) ELSE w
RECURSIVE trim_end(_)
trim_end(w) ==
    IF w # <<>> /\ w[Len(w)] = " " THEN trim_end(SubSeq(w, 1, Len(w) - 1)) ELSE w
\* str::trim, String::trim_in_place
trim(w) == trim_end(trim_start(w))

\* String::pop: the last char goes, if there is one
pop(str) == IF str = <<>> THEN str ELSE SubSeq(str, 1, Len(str) - 1)

\* words.for_each(|word| write!(search_term, " {} ", word.trim()))
RECURSIVE write_words(_, _, _)
write_words(acc, ws, i) ==
    IF i > Len(ws) THEN acc
    ELSE write_words(acc \o <<" ">> \o trim(ws[i]) \o <<" ">>, ws, i + 1)

\* the Some(words) arm of process_matches
join_search_term(ws) == pop(write_words(trim(ws[1]), ws, 2))

\* ------------------------------------------------------------------------
\* test_api_key (omdb.rs)

\* longest API key tried, in chars
MaxKeyLen == 9

\* a char of two bytes in UTF-8 (U+00E9)
E_ACUTE == "eacute"
\* a hexadecimal digit, a letter that is none, and a char that is not ASCII
KeyAlphabet == {"f", "g", E_ACUTE}
ApiKeys == UNION {[1..n -> KeyAlphabet] : n \in 0..MaxKeyLen}

\* char::is_ascii_hexdigit
is_ascii_hexdigit(c) ==
    c \in {"0", "1", "2", "3", "4", "5", "6", "7", "8", "9",
           "a", "b", "c", "d", "e", "f", "A", "B", "C", "D", "E", "F"}

\* char::len_utf8 for the chars of KeyAlphabet
len_utf8(c) == IF c = E_ACUTE THEN 2 ELSE 1

\* str::len: the length in bytes
RECURSIVE byte_len(_)
byte_len(str) == IF str = <<>> THEN 0 ELSE len_utf8(Head(str)) + byte_len(Tail(str))

\* mutant: the length is not looked at
api_key_format_any_length(api_key) ==
    \A i \in DOMAIN api_key : is_ascii_hexdigit(api_key[i])

api_key_format_acceptable(api_key) ==
    /\ byte_len(api_key) = 8
    /\ \A i \in DOMAIN api_key : is_ascii_hexdigit(api_key[i])

\* what minreq's send() gave: no request made, an error, or a status code
NoRequest == [sent |-> FALSE, ok |-> FALSE, status_code |-> 0]
SendFailed == [sent |-> TRUE, ok |-> FALSE, status_code |-> 0]
Response(status) == [sent |-> TRUE, ok |-> TRUE, status_code |-> status]
Responses == {SendFailed} \cup {Response(st) : st \in {200, 401, 403, 500}}

\* Result<(), ApiKeyError>
KeyOk == [tag |-> "Ok", status |-> 0]
ApiKeyError(tag) == [tag |-> tag, status |-> 0]
UnexpectedStatus(status) == [tag |-> "UnexpectedStatus", status |-> status]

\* test_api_key after the format check, given what send() returned
status_result(resp) ==
    IF ~resp.ok THEN ApiKeyError("RequestFailed")
    ELSE IF resp.status_code = 200 THEN KeyOk
    ELSE IF resp.status_code = 401 THEN ApiKeyError("Unauthorised")
    ELSE UnexpectedStatus(resp.status_code)

\* ------------------------------------------------------------------------
\* StatefulList and tui (user_input.rs)

\* most search results shown in the list
MaxItems == 3

\* mutant: previous stops at the first item
previous_saturating(sel, len) ==
    IF sel.some THEN (IF sel.val = 0 THEN 0 ELSE sel.val - 1) ELSE 0

\* StatefulList::next: the index it selects (indices count from 0)
next_index(sel, len) == IF sel.some THEN (sel.val + 1) % len ELSE 0

\* StatefulList::previous: checked_sub(1).unwrap_or(len - 1)
previous_index(sel, len) ==
    IF sel.some THEN (IF sel.val = 0 THEN len - 1 ELSE sel.val - 1) ELSE 0

\* the key codes and other events of event::read that tui tells apart
Events == {"Esc", "q", "Enter", "Up", "k", "Down", "j", "other key", "resize"}

\* no call of entry, next or previous yet
NoEntryCall == [called |-> FALSE, index |-> 0, sent |-> FALSE, ok |-> FALSE,
                before |-> <<>>]
NoMove == [kind |-> "none", from |-> 0]

\* TuiOutcome and InteractivityError; at names the call the error came from
NotReturned == [tag |-> "None", at |-> "", chosen |-> 0]
TuiOk(tag, chosen) == [tag |-> tag, at |-> "", chosen |-> chosen]
TuiErr(at) == [tag |-> "Err", at |-> at, chosen |-> 0]

\* the eprintln! of RequestBundle::new: the two numbers it names
NoWarning == [printed |-> FALSE, max |-> 0, combinations |-> 0]
Warning(max, n) == [printed |-> TRUE, max |-> max, combinations |-> n]

VARIABLES
    pc,                 \* "start", "ready" (bundle built), "loop", "done"
    types, years,       \* the Filters
    budget,             \* *MAX_REQUESTS_PER_SEARCH
    params,             \* RequestBundle.params
    warning,            \* the "can't be exhaustively covered" warning printed
    allow_reading_time, \* argument of get_results
    idx,                \* position of the for loop in params (1-based)
    issued,             \* positions of the parameter sets requested so far
    outcomes,           \* what send_omdb_search returned, request by request
    result_sets,
    reading_time,
    no_results_err,
    problems,           \* the "Problem with request" lines printed
    merged,             \* the merged list before unique_by
    slept,              \* milliseconds passed to thread::sleep
    result,             \* what get_results returned
    year_str,           \* the argument of Year::from_str
    year,               \* what Year::from_str returned
    filters,            \* the Filters allows is called on
    genre_args,         \* the -g words Filters::new is given
    year_arg,           \* the -y value Filters::new is given, parsed
    filters_made,       \* "no", "ok" or "err": what Filters::new did
    search_result,      \* the argument of allows
    allowed,            \* what allows returned
    env_var,            \* IMDB_ID_MAX_REQUESTS_PER_SEARCH in the environment
    max_requests,       \* the Lazy MAX_REQUESTS_PER_SEARCH: None until forced
    words,              \* the search_term values of the command line
    search_term,        \* RuntimeConfig.search_term, None until built
    api_key,            \* the argument of test_api_key
    key_response,       \* what the request of test_api_key got, if one was sent
    key_result,         \* what test_api_key returned, None before
    items_len,          \* StatefulList.underlying.len()
    tui_pc,             \* where tui is: "start", "raw", "alt", "draw", "read",
                        \* "returned"
    raw_mode,           \* the terminal is in raw mode
    alt_screen,         \* the terminal shows the alternate screen
    selected,           \* StatefulList.state.selected()
    entry_paragraphs,   \* per index: a paragraph is cached
    current_entry_error,\* tui's current_entry_error is Some
    fetched,            \* per index: get_entry calls that succeeded
    last_entry,         \* the last call of StatefulList::entry
    last_move,          \* the last call of next or previous
    outcome             \* what tui returned

vars == <<pc, types, years, budget, params, warning, allow_reading_time, idx,
          issued, outcomes, result_sets, reading_time, no_results_err, problems, merged,
          slept, result, year_str, year, genre_args, year_arg, filters_made,
          filters, search_result, allowed, env_var, max_requests, words,
          search_term, api_key, key_response, key_result, items_len, tui_pc,
          raw_mode, alt_screen, selected, entry_paragraphs, current_entry_error,
          fetched, last_entry, last_move, outcome>>

\* the variables of RequestBundle::new and get_results
fanout == <<pc, types, years, budget, params, warning, allow_reading_time, idx,
            issued, outcomes, result_sets, reading_time, no_results_err,
            problems, merged, slept, result>>
year_call == <<year_str, year>>
allows_call == <<genre_args, year_arg, filters_made, filters, search_result,
                 allowed>>

env_call == <<env_var, max_requests>>
term_call == <<words, search_term>>
key_call == <<api_key, key_response, key_result>>
terminal == <<raw_mode, alt_screen>>
status_list == <<items_len, selected, entry_paragraphs, fetched, last_entry,
                 last_move>>
tui_call == <<tui_pc, terminal, status_list, current_entry_error, outcome>>

\* the variables of the functions checked on their own
pure == <<year_call, allows_call, env_call, term_call, key_call, tui_call>>
\* all but the variables of tui
not_tui == <<fanout, year_call, allows_call, env_call, term_call, key_call>>

bundle == <<types, years, budget, params, warning>>

InitBundle ==
    /\ pc = "start"
    /\ types = ALL
    /\ years = None
    /\ budget = 0
    /\ params = <<>>
    /\ warning = NoWarning
    /\ allow_reading_time = FALSE
    /\ idx = 0
    /\ issued = <<>>
    /\ outcomes = <<>>
    /\ result_sets = <<>>
    /\ reading_time = 0
    /\ no_results_err = NoErr
    /\ problems = <<>>
    /\ merged = <<>>
    /\ slept = 0
    /\ result = NoResult

\* no call of Year::from_str
IdleYear ==
    /\ year_str = <<>>
    /\ year = NotParsed

\* no call of Filters::allows
IdleAllows ==
    /\ genre_args = <<>>
    /\ year_arg = None
    /\ filters_made = "no"
    /\ filters = [genres |-> <<>>, years |-> None]
    /\ search_result = [media_type |-> Other(<<>>), year |-> Single(0)]
    /\ allowed = None

\* MAX_REQUESTS_PER_SEARCH not looked at
IdleEnv ==
    /\ env_var = EnvUnset
    /\ max_requests = None

\* process_matches not called
IdleTerm ==
    /\ words = <<>>
    /\ search_term = None

\* test_api_key not called
IdleKey ==
    /\ api_key = <<>>
    /\ key_response = NoRequest
    /\ key_result = None

\* tui not called
IdleTui ==
    /\ items_len = 0
    /\ tui_pc = "idle"
    /\ raw_mode = FALSE
    /\ alt_screen = FALSE
    /\ selected = None
    /\ entry_paragraphs = <<>>
    /\ current_entry_error = FALSE
    /\ fetched = <<>>
    /\ last_entry = NoEntryCall
    /\ last_move = NoMove
    /\ outcome = NotReturned

Init ==
    /\ InitBundle
    /\ IdleYear
    /\ IdleAllows
    /\ IdleEnv
    /\ IdleTerm
    /\ IdleKey
    /\ IdleTui

\* mutant: the warning is printed as soon as the budget is reached
NewWarnsAtBudget(t, y, b) ==
    /\ pc = "start"
    /\ types' = t
    /\ years' = y
    /\ budget' = b
    /\ warning' = IF combinations(t, y) >= b
                  THEN Warning(b, combinations(t, y)) ELSE NoWarning
    /\ params' = BuildParams(t, y, b)
    /\ pc' = "ready"
    /\ UNCHANGED <<allow_reading_time, idx, issued, outcomes, result_sets,
                   reading_time, no_results_err, problems, merged, slept,
                   result>>

\* RequestBundle::new
New(t, y, b) ==
    /\ pc = "start"
    /\ types' = t
    /\ years' = y
    /\ budget' = b
    /\ warning' = IF combinations(t, y) > b
                  THEN Warning(b, combinations(t, y)) ELSE NoWarning
    /\ params' = BuildParams(t, y, b)
    /\ pc' = "ready"
    /\ UNCHANGED <<allow_reading_time, idx, issued, outcomes, result_sets,
                   reading_time, no_results_err, problems, merged, slept,
                   result>>

\* mutant: the reading time is slept whatever the flag says
FinishIgnoresFlag(sets, rtime, nre, art) ==
    /\ pc' = "done"
    /\ IF sets = <<>>
       THEN /\ result' = IF nre = NoErr THEN Panic ELSE Err(nre)
            /\ merged' = <<>>
            /\ slept' = 0
       ELSE LET m == MergeResults(sets)
                results == unique_by(m)
            IN  /\ merged' = m
                /\ result' = Ok(results)
                /\ slept' = IF results # <<>> /\ rtime > 0 THEN rtime ELSE 0

\* get_results after the for loop: the is_empty check, merge, unique_by,
\* reading time and return
Finish(sets, rtime, nre, art) ==
    /\ pc' = "done"
    /\ IF sets = <<>>
       THEN /\ result' = IF nre = NoErr THEN Panic ELSE Err(nre)
            /\ merged' = <<>>
            /\ slept' = 0
       ELSE LET m == MergeResults(sets)
                results == unique_by(m)
            IN  /\ merged' = m
                /\ result' = Ok(results)
                /\ slept' = IF art /\ results # <<>> /\ rtime > 0
                            THEN rtime ELSE 0

\* mutant: after the first parameter set the loop jumps to the last one
ContinueSkips(sets, rtime, nre) ==
    /\ result_sets' = sets
    /\ reading_time' = rtime
    /\ no_results_err' = nre
    /\ IF idx < Len(params)
       THEN /\ idx' = Len(params)
            /\ pc' = "loop"
            /\ UNCHANGED <<merged, slept, result>>
       ELSE /\ idx' = idx
            /\ Finish(sets, rtime, nre, allow_reading_time)

\* end of one iteration of the for loop: next parameter set, or leave the loop
Continue(sets, rtime, nre) ==
    /\ result_sets' = sets
    /\ reading_time' = rtime
    /\ no_results_err' = nre
    /\ IF idx < Len(params)
       THEN /\ idx' = idx + 1
            /\ pc' = "loop"
            /\ UNCHANGED <<merged, slept, result>>
       ELSE /\ idx' = idx
            /\ Finish(sets, rtime, nre, allow_reading_time)

\* entry of get_results; with no parameter set the loop body never runs
GetResults(art) ==
    /\ pc = "ready"
    /\ allow_reading_time' = art
    /\ UNCHANGED <<bundle, issued, outcomes, problems, result_sets,
                   reading_time, no_results_err>>
    /\ IF params = <<>>
       THEN /\ idx' = 0
            /\ Finish(<<>>, 0, NoErr, art)
       ELSE /\ idx' = 1
            /\ pc' = "loop"
            /\ UNCHANGED <<merged, slept, result>>

\* Ok(results) => result_sets.push(results.entries)
RespOk(ids) ==
    /\ pc = "loop"
    /\ issued' = Append(issued, idx)
    /\ outcomes' = Append(outcomes, Ok(Entries(idx, ids)))
    /\ Continue(Append(result_sets, Entries(idx, ids)), reading_time,
                no_results_err)
    /\ UNCHANGED <<bundle, allow_reading_time, problems>>

\* mutant: only the first 'not found' error is remembered
RespMissingKeepsFirst(e) ==
    /\ pc = "loop"
    /\ IsMissing(e)
    /\ issued' = Append(issued, idx)
    /\ outcomes' = Append(outcomes, Err(e))
    /\ Continue(result_sets, reading_time,
                IF no_results_err = NoErr THEN e ELSE no_results_err)
    /\ UNCHANGED <<bundle, allow_reading_time, problems>>

\* Err(missing) if .. ends_with("not found!") => no_results_err = Some(missing)
RespMissing(e) ==
    /\ pc = "loop"
    /\ IsMissing(e)
    /\ issued' = Append(issued, idx)
    /\ outcomes' = Append(outcomes, Err(e))
    /\ Continue(result_sets, reading_time, e)
    /\ UNCHANGED <<bundle, allow_reading_time, problems>>

\* mutant: a fatal error is remembered and the loop goes on
RespFatalContinues(e) ==
    /\ pc = "loop"
    /\ ~IsMissing(e)
    /\ is_fatal(e)
    /\ issued' = Append(issued, idx)
    /\ outcomes' = Append(outcomes, Err(e))
    /\ Continue(result_sets, reading_time, e)
    /\ UNCHANGED <<bundle, allow_reading_time, problems>>

\* Err(fatal) if fatal.is_fatal() => return Err(fatal)
RespFatal(e) ==
    /\ pc = "loop"
    /\ ~IsMissing(e)
    /\ is_fatal(e)
    /\ issued' = Append(issued, idx)
    /\ outcomes' = Append(outcomes, Err(e))
    /\ pc' = "done"
    /\ result' = Err(e)
    /\ UNCHANGED <<bundle, allow_reading_time, idx, result_sets, reading_time,
                   no_results_err, problems, merged, slept>>

\* mutant: a recoverable error is returned like a fatal one
RespWarnAborts(e) ==
    /\ pc = "loop"
    /\ ~IsMissing(e)
    /\ ~is_fatal(e)
    /\ issued' = Append(issued, idx)
    /\ outcomes' = Append(outcomes, Err(e))
    /\ pc' = "done"
    /\ result' = Err(e)
    /\ UNCHANGED <<bundle, allow_reading_time, idx, result_sets, reading_time,
                   no_results_err, problems, merged, slept>>

\* Err(warn) => eprintln!(..); reading_time += 200
RespWarn(e) ==
    /\ pc = "loop"
    /\ ~IsMissing(e)
    /\ ~is_fatal(e)
    /\ issued' = Append(issued, idx)
    /\ outcomes' = Append(outcomes, Err(e))
    /\ problems' = Append(problems, [params |-> params[idx], error |-> e])
    /\ Continue(result_sets, reading_time + 200, no_results_err)
    /\ UNCHANGED <<bundle, allow_reading_time>>

\* number of entries in the pages collected so far; one call is given at most
\* MaxEntries entries in all
Collected == Len(Flatten(result_sets))

\* number of different imdb ids returned so far
SeenIds == Cardinality({e.imdb_id : e \in Range(Flatten(result_sets))})

Next ==
    \/ \E t \in MediaTypes, y \in YearFilters, b \in Budgets :
            New(t, y, b) /\ UNCHANGED pure
    \/ \E art \in BOOLEAN : GetResults(art) /\ UNCHANGED pure
    \/ \E ids \in IdLists(MaxEntries - Collected, SeenIds) :
            RespOk(ids) /\ UNCHANGED pure
    \/ \E e \in RequestErrors(idx) : RespMissing(e) /\ UNCHANGED pure
    \/ \E e \in RequestErrors(idx) : RespFatal(e) /\ UNCHANGED pure
    \/ \E e \in RequestErrors(idx) : RespWarn(e) /\ UNCHANGED pure

Spec == Init /\ [][Next]_vars

\* ------------------------------------------------------------------------
\* Year::from_str on its own: any argument, one call

InitYear ==
    /\ InitBundle
    /\ IdleAllows
    /\ IdleEnv
    /\ IdleTerm
    /\ IdleKey
    /\ IdleTui
    /\ year_str \in YearStrings
    /\ year = NotParsed

FromStr ==
    /\ year = NotParsed
    /\ year' = from_str(year_str)
    /\ UNCHANGED <<year_str, fanout, allows_call, env_call, term_call,
                   key_call, tui_call>>

NextYear == FromStr

SpecYear == InitYear /\ [][NextYear]_vars

\* ------------------------------------------------------------------------
\* Filters::new and Filters::allows on their own: any -g and -y, any search
\* result, one call of each

InitAllows ==
    /\ InitBundle
    /\ IdleYear
    /\ IdleEnv
    /\ IdleTerm
    /\ IdleKey
    /\ IdleTui
    /\ genre_args \in GenreArgs
    /\ year_arg \in YearArgs
    /\ filters_made = "no"
    /\ filters = [genres |-> <<>>, years |-> None]
    /\ search_result \in SearchResultValues
    /\ allowed = None

FiltersNew ==
    /\ filters_made = "no"
    /\ LET made == filters_new(genre_args, year_arg)
       IN  IF made.some
           THEN filters' = made.val /\ filters_made' = "ok"
           ELSE filters' = filters /\ filters_made' = "err"
    /\ UNCHANGED <<genre_args, year_arg, search_result, allowed, fanout,
                   year_call, env_call, term_call, key_call, tui_call>>

Allows ==
    /\ filters_made = "ok"
    /\ allowed = None
    /\ allowed' = Some(allows(filters, search_result))
    /\ UNCHANGED <<genre_args, year_arg, filters_made, filters, search_result,
                   fanout, year_call, env_call, term_call, key_call, tui_call>>

NextAllows == FiltersNew \/ Allows

SpecAllows == InitAllows /\ [][NextAllows]_vars

\* ------------------------------------------------------------------------
\* MAX_REQUESTS_PER_SEARCH on its own: any environment, first use

InitEnv ==
    /\ InitBundle
    /\ IdleYear
    /\ IdleAllows
    /\ IdleTerm
    /\ IdleKey
    /\ IdleTui
    /\ env_var \in EnvValues
    /\ max_requests = None

\* first dereference of the Lazy
ForceMaxRequests ==
    /\ max_requests = None
    /\ max_requests' = Some(max_requests_per_search(env_var))
    /\ UNCHANGED <<env_var, fanout, year_call, allows_call, term_call,
                   key_call, tui_call>>

NextEnv == ForceMaxRequests

SpecEnv == InitEnv /\ [][NextEnv]_vars

\* ------------------------------------------------------------------------
\* the search term on its own: any words, one call of process_matches

InitTerm ==
    /\ InitBundle
    /\ IdleYear
    /\ IdleAllows
    /\ IdleEnv
    /\ IdleKey
    /\ IdleTui
    /\ words \in WordLists
    /\ search_term = None

ProcessMatches ==
    /\ search_term = None
    /\ search_term' = Some(join_search_term(words))
    /\ UNCHANGED <<words, fanout, year_call, allows_call, env_call, key_call,
                   tui_call>>

NextTerm == ProcessMatches

SpecTerm == InitTerm /\ [][NextTerm]_vars

\* ------------------------------------------------------------------------
\* test_api_key on its own: any key, any answer of the server

InitKey ==
    /\ InitBundle
    /\ IdleYear
    /\ IdleAllows
    /\ IdleEnv
    /\ IdleTerm
    /\ IdleTui
    /\ api_key \in ApiKeys
    /\ key_response = NoRequest
    /\ key_result = None

\* the early return of test_api_key
TestApiKeyBadFormat ==
    /\ key_result = None
    /\ ~api_key_format_acceptable(api_key)
    /\ key_result' = Some(ApiKeyError("InvalidFormat"))
    /\ UNCHANGED <<api_key, key_response, fanout, year_call, allows_call,
                   env_call, term_call, tui_call>>

\* the request of test_api_key and the match on its status
TestApiKeyRequest(resp) ==
    /\ key_result = None
    /\ api_key_format_acceptable(api_key)
    /\ key_response' = resp
    /\ key_result' = Some(status_result(resp))
    /\ UNCHANGED <<api_key, fanout, year_call, allows_call, env_call,
                   term_call, tui_call>>

NextKey ==
    \/ TestApiKeyBadFormat
    \/ \E resp \in Responses : TestApiKeyRequest(resp)

SpecKey == InitKey /\ [][NextKey]_vars

\* ------------------------------------------------------------------------
\* tui on its own, from StatefulList::new on: any number of entries, any
\* keys, any failure of the terminal and of get_entry

InitTui ==
    /\ InitBundle
    /\ IdleYear
    /\ IdleAllows
    /\ IdleEnv
    /\ IdleTerm
    /\ IdleKey
    /\ items_len \in 1..MaxItems
    /\ tui_pc = "start"
    /\ raw_mode = FALSE
    /\ alt_screen = FALSE
    /\ selected = Some(0)
    /\ entry_paragraphs = [i \in 1..items_len |-> FALSE]
    /\ current_entry_error = FALSE
    /\ fetched = [i \in 1..items_len |-> 0]
    /\ last_entry = NoEntryCall
    /\ last_move = NoMove
    /\ outcome = NotReturned

\* tui returns what, leaving the terminal as it is
Return(what) ==
    /\ tui_pc' = "returned"
    /\ outcome' = what

\* enable_raw_mode().map_err(..)?
EnableRawMode(ok) ==
    /\ tui_pc = "start"
    /\ IF ok
       THEN raw_mode' = TRUE /\ tui_pc' = "raw" /\ outcome' = outcome
       ELSE raw_mode' = raw_mode /\ Return(TuiErr("enable_raw_mode"))
    /\ UNCHANGED <<alt_screen, status_list, current_entry_error, not_tui>>

\* execute!(stdout, EnterAlternateScreen).map_err(..)?
EnterAlternateScreen(ok) ==
    /\ tui_pc = "raw"
    /\ IF ok
       THEN alt_screen' = TRUE /\ tui_pc' = "alt" /\ outcome' = outcome
       ELSE alt_screen' = alt_screen /\ Return(TuiErr("EnterAlternateScreen"))
    /\ UNCHANGED <<raw_mode, status_list, current_entry_error, not_tui>>

\* Terminal::new(backend).map_err(..)?
TerminalNew(ok) ==
    /\ tui_pc = "alt"
    /\ IF ok
       THEN tui_pc' = "draw" /\ outcome' = outcome
       ELSE Return(TuiErr("Terminal::new"))
    /\ UNCHANGED <<terminal, status_list, current_entry_error, not_tui>>

\* mutant: the paragraph fetched is not kept
EntryNeverCaches(fetch_ok) ==
    LET index == selected.val
        cached == entry_paragraphs[index + 1]
    IN  /\ last_entry' = [called |-> TRUE, index |-> index, sent |-> ~cached,
                          ok |-> cached \/ fetch_ok, before |-> entry_paragraphs]
        /\ entry_paragraphs' = entry_paragraphs
        /\ fetched' = IF ~cached /\ fetch_ok
                      THEN [fetched EXCEPT ![index + 1] = @ + 1]
                      ELSE fetched

\* StatefulList::entry; fetch_ok: get_entry, if called, returns Ok
Entry(fetch_ok) ==
    LET index == selected.val
        cached == entry_paragraphs[index + 1]
    IN  /\ last_entry' = [called |-> TRUE, index |-> index, sent |-> ~cached,
                          ok |-> cached \/ fetch_ok, before |-> entry_paragraphs]
        /\ entry_paragraphs' = IF ~cached /\ fetch_ok
                               THEN [entry_paragraphs EXCEPT ![index + 1] = TRUE]
                               ELSE entry_paragraphs
        /\ fetched' = IF ~cached /\ fetch_ok
                      THEN [fetched EXCEPT ![index + 1] = @ + 1]
                      ELSE fetched

\* terminal.draw fails before it calls the closure
DrawFails ==
    /\ tui_pc = "draw"
    /\ Return(TuiErr("draw"))
    /\ UNCHANGED <<terminal, status_list, current_entry_error, not_tui>>

\* terminal.draw runs the closure, which calls entry and sets
\* current_entry_error, and then flushes (flush_ok) or fails
Draw(fetch_ok, flush_ok) ==
    /\ tui_pc = "draw"
    /\ Entry(fetch_ok)
    /\ current_entry_error' = ~last_entry'.ok
    /\ IF flush_ok
       THEN tui_pc' = "read" /\ outcome' = outcome
       ELSE Return(TuiErr("draw"))
    /\ UNCHANGED <<terminal, items_len, selected, last_move, not_tui>>

\* event::read().map_err(..)? fails
ReadFails ==
    /\ tui_pc = "read"
    /\ Return(TuiErr("read"))
    /\ UNCHANGED <<terminal, status_list, current_entry_error, not_tui>>

\* unwind: disable_raw_mode()?, then execute!(stdout, LeaveAlternateScreen)
unwind(disable_ok, leave_ok) ==
    /\ raw_mode' = IF disable_ok THEN FALSE ELSE raw_mode
    /\ alt_screen' = IF disable_ok /\ leave_ok THEN FALSE ELSE alt_screen

\* KeyCode::Esc | KeyCode::Char('q')
KeyQuit(ev, disable_ok, leave_ok) ==
    /\ tui_pc = "read"
    /\ ev \in {"Esc", "q"}
    /\ unwind(disable_ok, leave_ok)
    /\ Return(IF disable_ok /\ leave_ok THEN TuiOk("Quit", 0) ELSE TuiErr("unwind"))
    /\ UNCHANGED <<status_list, current_entry_error, not_tui>>

\* KeyCode::Enter: break, unwind, entries[status_list.current()]
KeyEnter(disable_ok, leave_ok) ==
    /\ tui_pc = "read"
    /\ unwind(disable_ok, leave_ok)
    /\ Return(IF ~(disable_ok /\ leave_ok) THEN TuiErr("unwind")
              ELSE IF ~selected.some THEN TuiErr("panic in current")
              ELSE IF current_entry_error THEN TuiOk("PickedError", selected.val)
              ELSE TuiOk("Picked", selected.val))
    /\ UNCHANGED <<status_list, current_entry_error, not_tui>>

\* KeyCode::Up | Char('k') => previous, KeyCode::Down | Char('j') => next
KeyMove(ev) ==
    /\ tui_pc = "read"
    /\ ev \in {"Up", "k", "Down", "j"}
    /\ IF ev \in {"Up", "k"}
       THEN /\ selected' = Some(previous_index(selected, items_len))
            /\ last_move' = [kind |-> "previous", from |-> selected.val]
       ELSE /\ selected' = Some(next_index(selected, items_len))
            /\ last_move' = [kind |-> "next", from |-> selected.val]
    /\ tui_pc' = "draw"
    /\ UNCHANGED <<terminal, items_len, entry_paragraphs, fetched, last_entry,
                   current_entry_error, outcome, not_tui>>

\* any other key, and any event that is not a key: the loop goes round
OtherEvent(ev) ==
    /\ tui_pc = "read"
    /\ ev \in {"other key", "resize"}
    /\ tui_pc' = "draw"
    /\ UNCHANGED <<terminal, status_list, current_entry_error, outcome, not_tui>>

NextTui ==
    \/ \E ok \in BOOLEAN : EnableRawMode(ok)
    \/ \E ok \in BOOLEAN : EnterAlternateScreen(ok)
    \/ \E ok \in BOOLEAN : TerminalNew(ok)
    \/ DrawFails
    \/ \E fetch_ok, flush_ok \in BOOLEAN : Draw(fetch_ok, flush_ok)
    \/ ReadFails
    \/ \E ev \in Events, disable_ok, leave_ok \in BOOLEAN :
            KeyQuit(ev, disable_ok, leave_ok)
    \/ \E disable_ok, leave_ok \in BOOLEAN : KeyEnter(disable_ok, leave_ok)
    \/ \E ev \in Events : KeyMove(ev)
    \/ \E ev \in Events : OtherEvent(ev)

SpecTui == InitTui /\ [][NextTui]_vars

\* ------------------------------------------------------------------------
\* Vocabulary of the properties
\* ------------------------------------------------------------------------
Min(S) == CHOOSE x \in S : \A y \in S : x <= y
Max(S) == CHOOSE x \in S : \A y \in S : x >= y
UpTo(n) == [j \in 1..n |-> j]

IsPage(o) == o.tag = "Ok"
IsMissingOutcome(o) == o.tag = "Err" /\ IsMissing(o.err)
IsFatalOutcome(o) == o.tag = "Err" /\ ~IsMissing(o.err) /\ is_fatal(o.err)
IsWarnOutcome(o) == o.tag = "Err" /\ ~IsMissing(o.err) /\ ~is_fatal(o.err)

PageRequests == {i \in DOMAIN outcomes : IsPage(outcomes[i])}
MissingRequests == {i \in DOMAIN outcomes : IsMissingOutcome(outcomes[i])}
NoFatalOutcome == \A i \in DOMAIN outcomes : ~IsFatalOutcome(outcomes[i])
\* every entry of every page that was returned
AllEntries == UNION {Range(outcomes[i].list) : i \in PageRequests}
IdsOf(S) == {e.imdb_id : e \in S}
Occurrences(id) == {e \in AllEntries : e.imdb_id = id}
\* position in merged of the first entry with this id
FirstIn(seq, id) == Min({i \in DOMAIN seq : seq[i].imdb_id = id})

\* ------------------------------------------------------------------------
\* Properties
\* ------------------------------------------------------------------------

\* C1: when the request for parameter set i fails with a fatal error,
\* get_results has returned exactly that error, request i is the last one
\* issued, and nothing of the pages collected before i is merged or returned.
C1_FatalShortCircuit ==
    \A i \in DOMAIN outcomes :
        IsFatalOutcome(outcomes[i]) =>
            /\ pc = "done"
            /\ result = Err(outcomes[i].err)
            /\ issued = UpTo(i)
            /\ Len(outcomes) = i
            /\ merged = <<>>
            /\ slept = 0

\* a fatal failure of a request that is neither the first nor the last one,
\* after a page with entries was collected
C1_Witness ==
    /\ pc = "done"
    /\ \E i \in DOMAIN outcomes :
        /\ 1 < i /\ i < Len(params)
        /\ IsFatalOutcome(outcomes[i])
        /\ IsPage(outcomes[1]) /\ outcomes[1].list # <<>>

\* C2: for every budget B >= 1 the bundle holds at most B parameter sets and
\* get_results issues at most B requests.
C2_BudgetRespected ==
    (pc # "start" /\ budget >= 1) =>
        /\ Len(params) <= budget
        /\ Len(issued) <= budget

\* C3: with k selected media types (1 when unconstrained) and a year range of
\* width n (1 without a year) the bundle holds exactly min(k*n, B) parameter
\* sets.
C3_ExactCount ==
    (pc # "start" /\ budget >= 1) =>
        LET k == IF types = ALL THEN 1 ELSE Cardinality(types)
            n == IF years.some THEN years.val.end - years.val.start + 1 ELSE 1
        IN  Len(params) = Min({k * n, budget})

\* C4: entries of equal rank appear in the merged list in the order of their
\* pages.
C4_TiesInPageOrder ==
    \A i, j \in DOMAIN merged :
        (merged[i].pos = merged[j].pos /\ merged[i].page < merged[j].page)
            => i < j

\* C5: the merged list holds every entry of every successful page once, and
\* every entry of rank r comes before every entry of rank r+1.
C5_RankOrder ==
    /\ \A i, j \in DOMAIN merged :
            merged[j].pos = merged[i].pos + 1 => i < j
    /\ (pc = "done" /\ result.tag = "Ok") =>
            /\ Range(merged) = AllEntries
            /\ Len(merged) = Cardinality(AllEntries)

\* the rank-0 entry of a later page was merged ahead of the rank-1 entry of
\* an earlier page
C5_Witness ==
    /\ pc = "done"
    /\ \E i, j \in DOMAIN merged :
        /\ i < j
        /\ merged[i].page > merged[j].page
        /\ merged[i].pos = 0
        /\ merged[j].pos = 1

\* C6 as stated: of an imdb_id that occurs in two pages exactly one entry
\* survives, the one of the page that is earlier in the parameter sequence.
C6_KeepsEarlierPage ==
    result.tag = "Ok" =>
        \A id \in IdsOf(AllEntries) :
            LET pages == {e.page : e \in Occurrences(id)}
            IN  Cardinality(pages) >= 2 =>
                    \E k \in DOMAIN result.list :
                        /\ result.list[k].imdb_id = id
                        /\ result.list[k].page = Min(pages)
                        /\ \A l \in DOMAIN result.list :
                                result.list[l].imdb_id = id => l = k

\* C6 amended: of an imdb_id that occurs in two pages exactly one entry
\* survives, the first occurrence in the merged list, whose rank within its
\* page is the lowest among the occurrences (whatever page it came from).
C6_KeepsLowestRank ==
    result.tag = "Ok" =>
        \A id \in IdsOf(AllEntries) :
            LET pages == {e.page : e \in Occurrences(id)}
            IN  Cardinality(pages) >= 2 =>
                    \E k \in DOMAIN result.list :
                        /\ result.list[k].imdb_id = id
                        /\ result.list[k] = merged[FirstIn(merged, id)]
                        /\ result.list[k].pos =
                                Min({e.pos : e \in Occurrences(id)})
                        /\ \A l \in DOMAIN result.list :
                                result.list[l].imdb_id = id => l = k

\* an id of two pages survives from the later page, where its rank is lower
C6_Witness ==
    /\ result.tag = "Ok"
    /\ \E k \in DOMAIN result.list :
        \E e \in Occurrences(result.list[k].imdb_id) :
            /\ e.page < result.list[k].page
            /\ e.pos > result.list[k].pos

\* C7: an Ok list has no two entries with the same imdb_id, holds every
\* imdb_id of every successful page, and lists the first occurrences of the
\* merged list in their merged order.
C7_UniqueFirstOccurrences ==
    result.tag = "Ok" =>
        LET list == result.list
        IN  /\ \A k, l \in DOMAIN list :
                    list[k].imdb_id = list[l].imdb_id => k = l
            /\ IdsOf(Range(list)) = IdsOf(AllEntries)
            /\ \A k \in DOMAIN list :
                    list[k] = merged[FirstIn(merged, list[k].imdb_id)]
            /\ \A k, l \in DOMAIN list :
                    k < l => FirstIn(merged, list[k].imdb_id)
                                < FirstIn(merged, list[l].imdb_id)

\* a duplicate that does not follow its first occurrence directly was
\* removed, and two entries survive
C7_Witness ==
    /\ result.tag = "Ok"
    /\ Len(result.list) >= 2
    /\ \E i, j \in DOMAIN merged :
        /\ i + 2 <= j
        /\ merged[i].imdb_id = merged[j].imdb_id

\* C8: when every request fails with a recoverable error, get_results returns
\* Err with the last of these errors.
C8_AllRecoverableReturnsErr ==
    (/\ pc = "done"
     /\ outcomes # <<>>
     /\ \A i \in DOMAIN outcomes : IsWarnOutcome(outcomes[i]))
        => result = Err(outcomes[Len(outcomes)].err)

\* C9: when the fan-out ends without a page (no request failed fatally, which
\* is the case of C1) and some request answered 'not found', get_results
\* returns Err with the most recent 'not found' error, however many
\* recoverable failures there were.
C9_NotFoundReported ==
    (/\ pc = "done"
     /\ PageRequests = {}
     /\ NoFatalOutcome
     /\ MissingRequests # {})
        => /\ result = Err(outcomes[Max(MissingRequests)].err)
           /\ slept = 0

\* two 'not found' answers, then a recoverable failure, and no page
C9_Witness ==
    /\ pc = "done"
    /\ PageRequests = {}
    /\ Cardinality(MissingRequests) >= 2
    /\ \E i \in DOMAIN outcomes :
            i > Max(MissingRequests) /\ IsWarnOutcome(outcomes[i])

\* C10: a recoverable failure of request i is never what get_results
\* returns; it is printed with its parameter set, the next parameter set is
\* requested, and when the fan-out ends with at least one page the result is
\* Ok and holds the merge of all pages.
C10_RecoverableContinues ==
    \A i \in DOMAIN outcomes :
        IsWarnOutcome(outcomes[i]) =>
            /\ result.err # outcomes[i].err
            /\ \E k \in DOMAIN problems :
                    problems[k] = [params |-> params[i],
                                   error |-> outcomes[i].err]
            /\ (Len(outcomes) = i /\ i < Len(params)) =>
                    (pc = "loop" /\ idx = i + 1)
            /\ (pc = "done" /\ NoFatalOutcome) =>
                    issued = UpTo(Len(params))
            /\ (pc = "done" /\ NoFatalOutcome /\ PageRequests # {}) =>
                    /\ result.tag = "Ok"
                    /\ Range(merged) = AllEntries
                    /\ IdsOf(Range(result.list)) = IdsOf(AllEntries)

\* a recoverable failure followed by a page with entries
C10_Witness ==
    /\ pc = "done"
    /\ result.tag = "Ok"
    /\ \E i, j \in DOMAIN outcomes :
        /\ i < j
        /\ IsWarnOutcome(outcomes[i])
        /\ IsPage(outcomes[j]) /\ outcomes[j].list # <<>>

WarnRequests == {i \in DOMAIN outcomes : IsWarnOutcome(outcomes[i])}
\* the selected media types in the order movie, series, game
CanonicalTypes(ts) ==
    SelectSeq(<<"movie", "series", "game">>, LAMBDA s : s \in ts)
RangeWidth(r) == r.end - r.start + 1

\* C11: the requests are issued one per parameter set, one at a time and in
\* the order of params, until every set was requested or a request failed
\* fatally; a 'not found' answer leaves the loop running and becomes the
\* remembered 'not found' error.
C11_OneRequestPerSetInOrder ==
    /\ issued = UpTo(Len(issued))
    /\ Len(outcomes) = Len(issued)
    /\ pc = "loop" => (idx = Len(issued) + 1 /\ idx <= Len(params))
    /\ pc = "done" =>
            \/ Len(issued) = Len(params)
            \/ IsFatalOutcome(outcomes[Len(outcomes)])
    /\ no_results_err = IF MissingRequests = {} THEN NoErr
                        ELSE outcomes[Max(MissingRequests)].err
    /\ \A i \in MissingRequests :
            (Len(outcomes) = i /\ i < Len(params)) => pc = "loop"

\* three parameter sets were requested although the first two answered
\* 'not found'
C11_Witness ==
    /\ Len(issued) = 3
    /\ {1, 2} \subseteq MissingRequests

\* C12: a Web error and an OMDb message other than 'not found' end the call
\* with that error; a Deserialisation error is printed and the loop goes on.
C12_Classification ==
    \A i \in DOMAIN outcomes :
        LET o == outcomes[i]
        IN  /\ (o.tag = "Err" /\ o.err.kind = "Web") =>
                    (result = Err(o.err) /\ Len(issued) = i)
            /\ (o.tag = "Err" /\ o.err.kind = "Omdb"
                    /\ ~ends_with(o.err.msg, NotFoundSuffix)) =>
                    (result = Err(o.err) /\ Len(issued) = i)
            /\ (o.tag = "Err" /\ o.err.kind = "Deserialisation") =>
                    /\ result.err # o.err
                    /\ \E k \in DOMAIN problems : problems[k].error = o.err
                    /\ (Len(outcomes) = i /\ i < Len(params)) => pc = "loop"

\* a Deserialisation error was skipped and a later request ended the call
\* with an OMDb message that is not 'not found'
C12_Witness ==
    \E i, j \in DOMAIN outcomes :
        /\ i < j
        /\ outcomes[i].tag = "Err" /\ outcomes[i].err.kind = "Deserialisation"
        /\ outcomes[j].tag = "Err" /\ outcomes[j].err.kind = "Omdb"
        /\ ~ends_with(outcomes[j].err.msg, NotFoundSuffix)
        /\ result = Err(outcomes[j].err)

\* C13: get_results sleeps exactly when allow_reading_time is set, the
\* returned list is not empty and a recoverable failure was recorded, for
\* 200 ms per recoverable failure; never when it returns Err.
C13_ReadingTime ==
    /\ pc # "done" => slept = 0
    /\ pc = "done" =>
            slept = IF /\ allow_reading_time
                       /\ result.tag = "Ok"
                       /\ result.list # <<>>
                       /\ WarnRequests # {}
                    THEN 200 * Cardinality(WarnRequests)
                    ELSE 0

\* two recoverable failures and a page with entries: 400 ms were slept
C13_Witness ==
    /\ pc = "done"
    /\ slept = 400

\* C14: with media types and years both constrained, params is the first
\* min(n*k, B) pairs of years (outer, ascending) x types (inner, canonical).
C14_YearsOuterTypesInner ==
    (pc # "start" /\ types # ALL /\ years.some) =>
        LET strs == CanonicalTypes(types)
            k == Len(strs)
            n == RangeWidth(years.val)
        IN  /\ Len(params) = Min({n * k, budget})
            /\ \A i \in DOMAIN params :
                    params[i] = [media_type |-> strs[((i - 1) % k) + 1],
                                 year |-> years.val.start + ((i - 1) \div k)]

\* two types and two years cut to three parameter sets
C14_Witness ==
    /\ pc # "start"
    /\ types # ALL /\ years.some
    /\ Cardinality(types) = 2
    /\ RangeWidth(years.val) = 2
    /\ Len(params) = 3

\* C15: with only the year constrained, params is one set per year, without
\* media type, ascending, cut to the first B years.
C15_YearsOnly ==
    (pc # "start" /\ types = ALL /\ years.some) =>
        /\ Len(params) = Min({RangeWidth(years.val), budget})
        /\ \A i \in DOMAIN params :
                params[i] = [media_type |-> NoType,
                             year |-> years.val.start + i - 1]

\* a range of two years cut to one parameter set
C15_Witness ==
    /\ pc # "start"
    /\ types = ALL /\ years.some
    /\ RangeWidth(years.val) = 2
    /\ Len(params) = 1

\* C16: with only media types constrained, params is one set per selected
\* type, without year, in the order movie, series, game, cut to B.
C16_TypesOnly ==
    (pc # "start" /\ budget >= 1 /\ types # ALL /\ ~years.some) =>
        LET strs == CanonicalTypes(types)
        IN  /\ Len(params) = Min({Len(strs), budget})
            /\ \A i \in DOMAIN params :
                    params[i] = [media_type |-> strs[i], year |-> NoYear]

\* C17: without media-type and year constraint params is exactly one set
\* with neither, and get_results issues exactly one request.
C17_Unfiltered ==
    (pc # "start" /\ types = ALL /\ ~years.some) =>
        /\ params = <<[media_type |-> NoType, year |-> NoYear]>>
        /\ pc = "done" => issued = <<1>>

\* an unfiltered search has returned
C17_Witness ==
    /\ pc = "done"
    /\ types = ALL /\ ~years.some
    /\ Len(outcomes) = 1

\* a year written in digits only
AllDigits(s) == s # <<>> /\ \A i \in DOMAIN s : IsDigit(s[i])
RECURSIVE Decimal(_)
Decimal(s) ==
    IF s = <<>> THEN 0 ELSE 10 * Decimal(SubSeq(s, 1, Len(s) - 1)) + to_digit(s[Len(s)])
IsYearText(s) == AllDigits(s) /\ Decimal(s) <= U16Max

\* C19: for an argument 'A-B' whose sides both parse as years, from_str
\* yields the bounded range from the smaller to the larger of the two.
C19_InvertedRangeSwapped ==
    year # NotParsed =>
        \A i \in DOMAIN year_str :
            LET a == parse_u16(SubSeq(year_str, 1, i - 1))
                b == parse_u16(SubSeq(year_str, i + 1, Len(year_str)))
            IN  (year_str[i] \in SEPARATORS /\ a.ok /\ b.ok) =>
                    year = YearRange(Some(Min({a.val, b.val})),
                                     Some(Max({a.val, b.val})))

\* "91", en dash, "19" was parsed as the range 19 to 91
C19_Witness ==
    /\ year_str = <<"9", "1", EN_DASH, "1", "9">>
    /\ year = YearRange(Some(19), Some(91))

FirstYear(y) ==
    IF y.tag = "Single" THEN y.n ELSE IF y.start.some THEN y.start.val ELSE 0
LastYear(y) ==
    IF y.tag = "Single" THEN y.n ELSE IF y.end.some THEN y.end.val ELSE U16Max
\* the two share at least one year
Overlap(a, b) ==
    Max({FirstYear(a), FirstYear(b)}) <= Min({LastYear(a), LastYear(b)})
\* the media type is one of the genres asked for (no genre asked: any)
InAllowedSet(f, sr) ==
    f.genres # <<>> => \E i \in DOMAIN f.genres : f.genres[i] = sr.media_type

\* C18: allows is true exactly when the media type is allowed and the
\* candidate's year or range shares a year with the filter's (any overlap);
\* without a year filter only the media type counts.
C18_AllowsIffOverlap ==
    allowed.some =>
        (allowed.val <=>
            /\ InAllowedSet(filters, search_result)
            /\ filters.years.some => Overlap(filters.years.val, search_result.year))

\* C22: new prints the warning exactly when combinations() > B, with B and
\* the number of combinations in it; the bundle is built all the same, with
\* the parameter sets the filters and the budget give.
C22_WarningIffOverBudget ==
    pc # "start" =>
        /\ warning.printed <=> combinations(types, years) > budget
        /\ warning.printed =>
                /\ warning.max = budget
                /\ warning.combinations = combinations(types, years)
        /\ params = BuildParams(types, years, budget)

\* two types over two years with a budget of three: the warning names 3 and
\* 4 and three parameter sets were built
C22_Witness ==
    /\ pc = "ready"
    /\ warning = Warning(3, 4)
    /\ Len(params) = 3

\* C26: the entries of one page that are in the returned list are there in
\* the order they had in the page.
C26_PageOrderKept ==
    (pc = "done" /\ result.tag = "Ok") =>
        \A i, j \in DOMAIN result.list :
            (i < j /\ result.list[i].page = result.list[j].page) =>
                result.list[i].pos < result.list[j].pos

\* a page gave two of the returned entries and the merge had put an entry
\* of another page between them
C26_Witness ==
    /\ pc = "done" /\ result.tag = "Ok"
    /\ \E i, j \in DOMAIN result.list :
            /\ i < j
            /\ result.list[i].page = result.list[j].page
            /\ \E a, k, b \in DOMAIN merged :
                    /\ a < k /\ k < b
                    /\ merged[a] = result.list[i]
                    /\ merged[b] = result.list[j]
                    /\ merged[k].page # result.list[i].page

\* C27: whatever the filters and the budget (0 included), new builds at
\* least one parameter set, get_results sends at least one request and has
\* an error to return when there are no results.
C27_AtLeastOneRequest ==
    /\ pc # "start" => Len(params) >= 1
    /\ pc = "done" => (Len(issued) >= 1 /\ result # Panic)

\* a word with its ASCII capitals made small
InLowerCase(w) == [k \in DOMAIN w |-> to_ascii_lowercase(w[k])]
\* the -g words in lower case
LoweredArgs == [i \in DOMAIN genre_args |-> InLowerCase(genre_args[i])]

\* C24: without -g allows accepts exactly the candidates whose year matches;
\* with -g it accepts only candidates whose media type is one of the words,
\* case ignored, so that 'Movie' filters like 'movie'.
C24_GenresIgnoreCase ==
    /\ filters_made # "no" =>
            (filters_made = "ok"
                <=> filters_new(LoweredArgs, year_arg).some)
    /\ allowed.some =>
            /\ genre_args = <<>> =>
                    (allowed.val <=> year_matches(filters, search_result))
            /\ (genre_args # <<>> /\ allowed.val) =>
                    \E i \in DOMAIN genre_args :
                        LoweredArgs[i] = InLowerCase(as_str(search_result.media_type))
            /\ allowed.val
                    = allows(filters_new(LoweredArgs, year_arg).val, search_result)

\* -g Movie accepted a search result of type movie
C24_Witness ==
    /\ genre_args = << <<"M", "o", "v", "i", "e">> >>
    /\ search_result.media_type = Movie
    /\ allowed = Some(TRUE)

\* a number written in digits only, short enough for any usize
PlainNumber(s) == AllDigits(s) /\ Len(s) < Len(USIZE_MAX_DIGITS)
\* a text that is no number: empty, or with a char that is neither a digit
\* nor a leading plus sign before something
NotANumber(s) ==
    \/ s = <<>>
    \/ \E i \in DOMAIN s :
            ~IsDigit(s[i]) /\ ~(i = 1 /\ s[i] = "+" /\ Len(s) > 1)

\* C21: the budget is 10 when the variable is unset or is no unsigned
\* integer, and is the value written when that is a number (a leading plus
\* sign allowed); a number past usize::MAX counts as not parsing.
C21_BudgetFromEnvironment ==
    max_requests.some =>
        LET b == max_requests.val
            s == env_var.val
        IN  /\ env_var.is # "set" => b = 10
            /\ (env_var.is = "set" /\ NotANumber(s)) => b = 10
            /\ (env_var.is = "set" /\ PlainNumber(s)) => b = Decimal(s)
            /\ (env_var.is = "set" /\ s # <<>> /\ s[1] = "+" /\ PlainNumber(Tail(s)))
                    => b = Decimal(Tail(s))
            /\ (env_var.is = "set" /\ s = TooBig) => b = 10

\* the value "2x" gave the default budget
C21_Witness ==
    /\ env_var = EnvSet(<<"2", "x">>)
    /\ max_requests = Some(10)

\* the words without the blanks around them, one blank between two words
RECURSIVE JoinedFrom(_, _)
JoinedFrom(ws, i) ==
    IF i > Len(ws) THEN <<>>
    ELSE IF i = Len(ws) THEN trim(ws[i])
    ELSE trim(ws[i]) \o <<" ">> \o JoinedFrom(ws, i + 1)

\* C23: search_term is the words given, each trimmed, with exactly one
\* space between two of them and none before or after, for one word or more
\* (words that are not blank only).
C23_JoinedBySingleSpaces ==
    (search_term.some /\ \A i \in DOMAIN words : trim(words[i]) # <<>>) =>
        search_term.val = JoinedFrom(words, 1)

\* the ASCII hexadecimal digits, and a key of exactly eight of them
HexChars ==
    {DigitChars[d] : d \in DOMAIN DigitChars}
        \cup {LowerChars[d] : d \in 1..6} \cup {UpperChars[d] : d \in 1..6}
EightHexChars(key) ==
    /\ Len(key) = 8
    /\ \A i \in DOMAIN key : key[i] \in HexChars

\* C25: a key that is not eight hexadecimal digits gives InvalidFormat and
\* no request; a key that is gives Ok exactly for status 200, Unauthorised
\* for 401 and UnexpectedStatus for any other status.
C25_ApiKeyResult ==
    key_result.some =>
        LET res == key_result.val
        IN  /\ ~EightHexChars(api_key) =>
                    (res.tag = "InvalidFormat" /\ ~key_response.sent)
            /\ EightHexChars(api_key) =>
                    /\ key_response.sent
                    /\ res.tag = "Ok" <=>
                            (key_response.ok /\ key_response.status_code = 200)
                    /\ (key_response.ok /\ key_response.status_code = 401)
                            => res.tag = "Unauthorised"
                    /\ (key_response.ok /\ key_response.status_code \notin {200, 401})
                            => res = UnexpectedStatus(key_response.status_code)

\* the key ffffffff was answered with status 401
C25_Witness ==
    /\ api_key = [i \in 1..8 |-> "f"]
    /\ key_response = Response(401)
    /\ key_result = Some(ApiKeyError("Unauthorised"))

\* C28: the selection of a list over L >= 1 items is always an index below
\* L; next selects (i+1) mod L, previous (i-1) mod L, so that previous undoes
\* next, and current() finds a selection.
C28_SelectionWraps ==
    tui_pc # "idle" =>
        /\ selected.some
        /\ selected.val \in 0..(items_len - 1)
        /\ last_move.kind = "next" =>
                selected.val = (last_move.from + 1) % items_len
        /\ last_move.kind = "previous" =>
                selected.val = (last_move.from - 1) % items_len
        /\ previous_index(Some(next_index(selected, items_len)), items_len)
                = selected.val
        /\ outcome.at # "panic in current"

\* previous at the first of three items selected the last one
C28_Witness ==
    /\ items_len = 3
    /\ last_move = [kind |-> "previous", from |-> 0]
    /\ selected = Some(2)

\* C29: at most one get_entry succeeds per index; entry sends a request
\* exactly when nothing is cached for the selected index, caches what a
\* successful request returned, caches nothing after a failed one, and
\* leaves the other indices' cache alone.
C29_EntryCachedOnce ==
    /\ \A i \in DOMAIN fetched : fetched[i] <= 1
    /\ last_entry.called =>
            LET at == last_entry.index + 1
            IN  /\ last_entry.sent <=> ~last_entry.before[at]
                /\ (last_entry.sent /\ last_entry.ok) => entry_paragraphs[at]
                /\ (last_entry.sent /\ ~last_entry.ok) => ~entry_paragraphs[at]
                /\ ~last_entry.sent =>
                        (last_entry.ok /\ entry_paragraphs = last_entry.before)
                /\ \A j \in DOMAIN entry_paragraphs :
                        j # at => entry_paragraphs[j] = last_entry.before[j]

\* an index fetched once was shown again from the cache, another index
\* being cached too
C29_Witness ==
    /\ last_entry.called /\ ~last_entry.sent
    /\ fetched[last_entry.index + 1] = 1
    /\ \E j \in DOMAIN entry_paragraphs :
            j # last_entry.index + 1 /\ entry_paragraphs[j]

\* C30: when tui has returned with an entry picked, with Quit, or with an
\* error of drawing or of reading an event, raw mode is off and the
\* alternate screen was left.
C30_TerminalRestored ==
    (/\ tui_pc = "returned"
     /\ \/ outcome.tag \in {"Picked", "PickedError", "Quit"}
        \/ (outcome.tag = "Err" /\ outcome.at \in {"draw", "read"}))
        => (~raw_mode /\ ~alt_screen)
====
